---- MODULE Spec2Model ----
(***************************************************************************)
(* Round-robin schedule generator (tournament_generator.py).               *)
(*                                                                         *)
(* One TournamentGenerator instance serves a sequence of                   *)
(* generate_tournament(n) calls.  A call names the competitors, splits     *)
(* them into tables and, table by table, runs generate_matches: the        *)
(* pair-ordering loop (one order_step per iteration of the while loop)     *)
(* followed by apply_player_balance (one balance_step per iteration of     *)
(* the for loop).  Competitors are modelled by the code point of their     *)
(* label, chr(ord('A') + i).                                               *)
(***************************************************************************)
EXTENDS Integers, Sequences, FiniteSets, TLC

\* Largest competitor count handed to generate_tournament.
MaxCount == 24

\* Number of generate_tournament calls made on the one instance.
MaxRuns == 2

\* ord('A')
OrdA == 65

\* float('inf'), the initial best_score: larger than every score.
Inf == -1

\* Python's None (best_match before the scan, no snapshot taken yet).
None == <<>>

VARIABLES
    pc,                      \* position: "idle", "tables", "order", "balance"
    runs,                    \* generate_tournament calls completed
    participant_count,       \* argument of the running generate_tournament
    tables,                  \* generate_tournament: result of split_participants
    ti,                      \* generate_tournament: 1-based index of the table in hand
    participants,            \* generate_matches: its argument
    all_combinations,        \* generate_matches: line 31
    match_count,             \* generate_matches: the MatchLoad dictionary
    ordered_matches,         \* generate_matches: pairs ordered so far
    remaining_combinations,  \* generate_matches: pairs not yet ordered
    player_weights,          \* apply_player_balance: the SeatWeight dictionary
    balanced_matches,        \* apply_player_balance: matches seated so far
    mi,                      \* apply_player_balance: 1-based index of the next pair
    seen                     \* history: <<input, result>> of one earlier generate_matches call

vars == <<pc, runs, participant_count, tables, ti, participants, all_combinations,
          match_count, ordered_matches, remaining_combinations, player_weights,
          balanced_matches, mi, seen>>

----------------------------------------------------------------------------
(* Helpers: Python built-ins used by the code *)

Range(s) == {s[i] : i \in DOMAIN s}

min(a, b) == IF a <= b THEN a ELSE b

\* s[a:b] with 0-based, clamped bounds
slice(s, a, b) ==
    LET hi == IF b > Len(s) THEN Len(s) ELSE b
    IN  IF a >= hi THEN <<>> ELSE SubSeq(s, a + 1, hi)

\* list.remove(x): drops the first element equal to x
RECURSIVE remove(_, _)
remove(s, x) ==
    IF s = <<>> THEN <<>>
    ELSE IF Head(s) = x THEN Tail(s)
    ELSE <<Head(s)>> \o remove(Tail(s), x)

\* a non-empty tuple is truthy, None is not
truthy(x) == x # None

\* mutant: the pairs with the last competitor are not generated
RECURSIVE combinations_short(_)
combinations_short(ps) ==
    IF Len(ps) < 3 THEN <<>>
    ELSE [j \in 1..(Len(ps) - 2) |-> <<ps[1], ps[j + 1]>>] \o combinations_short(Tail(ps))

\* itertools.combinations(ps, 2): pairs (ps[i], ps[j]), i < j, in lexicographic
\* order of the positions
RECURSIVE combinations(_)
combinations(ps) ==
    IF Len(ps) < 2 THEN <<>>
    ELSE [j \in 1..(Len(ps) - 1) |-> <<ps[1], ps[j + 1]>>] \o combinations(Tail(ps))

----------------------------------------------------------------------------
(* generate_participants *)

generate_participants(count) == [i \in 1..count |-> OrdA + (i - 1)]

----------------------------------------------------------------------------
(* split_participants *)

\* the for loop of the 3- and 4-table branches: tables i..k-1 (0-based)
RECURSIVE split_loop(_, _, _, _, _, _)
split_loop(ps, k, base, remainder, i, start) ==
    IF i >= k THEN <<>>
    ELSE LET size == base + (IF i < remainder THEN 1 ELSE 0)
         IN  <<slice(ps, start, start + size)>>
             \o split_loop(ps, k, base, remainder, i + 1, start + size)

\* mutant: the second half starts one competitor late
split_participants_gap(ps) ==
    LET total == Len(ps)
    IN  IF total <= 6 THEN <<ps>>
        ELSE IF total <= 12 THEN
            LET mid == total \div 2
            IN  <<slice(ps, 0, mid), slice(ps, mid + 1, total)>>
        ELSE IF total <= 18 THEN split_loop(ps, 3, total \div 3, total % 3, 0, 0)
        ELSE split_loop(ps, 4, total \div 4, total % 4, 0, 0)

\* mutant: the tiers are cut with < instead of <=
split_participants_tier(ps) ==
    LET total == Len(ps)
    IN  IF total < 6 THEN <<ps>>
        ELSE IF total < 12 THEN
            LET mid == total \div 2
            IN  <<slice(ps, 0, mid), slice(ps, mid, total)>>
        ELSE IF total < 18 THEN split_loop(ps, 3, total \div 3, total % 3, 0, 0)
        ELSE split_loop(ps, 4, total \div 4, total % 4, 0, 0)

split_participants(ps) ==
    LET total == Len(ps)
    IN  IF total <= 6 THEN <<ps>>
        ELSE IF total <= 12 THEN
            LET mid == total \div 2
            IN  <<slice(ps, 0, mid), slice(ps, mid, total)>>
        ELSE IF total <= 18 THEN split_loop(ps, 3, total \div 3, total % 3, 0, 0)
        ELSE split_loop(ps, 4, total \div 4, total % 4, 0, 0)

----------------------------------------------------------------------------
(* generate_matches: the scan for the best pair *)

\* mutant: the load of the pair's members is ignored
score_flat(mc, combination) == 0

\* score = match_count[p1] + match_count[p2]
score(mc, combination) == mc[combination[1]] + mc[combination[2]]

\* mutant: a pair of equal score replaces the best one
better_or_equal(s, best_score) == best_score = Inf \/ s <= best_score

\* if score < best_score
better(s, best_score) == best_score = Inf \/ s < best_score

\* the for loop over remaining_combinations, from its i-th element on
RECURSIVE scan(_, _, _, _, _)
scan(rem, mc, i, best_match, best_score) ==
    IF i > Len(rem) THEN best_match
    ELSE LET combination == rem[i]
             s == score(mc, combination)
         IN  IF better(s, best_score)
             THEN scan(rem, mc, i + 1, combination, s)
             ELSE IF s = best_score
             THEN LET current_min == min(mc[combination[1]], mc[combination[2]])
                      best_min == min(mc[best_match[1]], mc[best_match[2]])
                  IN  IF current_min < best_min
                      THEN scan(rem, mc, i + 1, combination, best_score)
                      ELSE scan(rem, mc, i + 1, best_match, best_score)
             ELSE scan(rem, mc, i + 1, best_match, best_score)

\* the pair one iteration of the while loop commits
selected(rem, mc) ==
    LET best_match == scan(rem, mc, 1, None, Inf)
    IN  IF truthy(best_match) THEN best_match ELSE rem[1]

\* match_count[p1] += 1; match_count[p2] += 1
count_up(mc, match) ==
    LET m1 == [mc EXCEPT ![match[1]] = @ + 1]
    IN  [m1 EXCEPT ![match[2]] = @ + 1]

\* match_count = {participant: 0 for participant in participants}
new_match_count(ps) == [p \in Range(ps) |-> 0]

----------------------------------------------------------------------------
(* apply_player_balance: the seat decision *)

\* mutant: the pair keeps its order whatever the weights
seat_kept(w, match) == <<match[1], match[2]>>

\* mutant: the heavier competitor is seated first
seat_heavier(w, match) ==
    IF w[match[1]] > w[match[2]] THEN <<match[1], match[2]>>
    ELSE IF w[match[1]] < w[match[2]] THEN <<match[2], match[1]>>
    ELSE <<match[1], match[2]>>

\* (first_player, second_player) of one pair
seat(w, match) ==
    LET p1 == match[1]
        p2 == match[2]
    IN  IF w[p1] < w[p2] THEN <<p1, p2>>
        ELSE IF w[p1] > w[p2] THEN <<p2, p1>>
        ELSE <<p1, p2>>

\* mutant: the second seat costs nothing
reweigh_first_only(w, seated) == [w EXCEPT ![seated[1]] = @ + 1]

\* player_weights[first_player] += 1; player_weights[second_player] -= 1
reweigh(w, seated) ==
    LET w1 == [w EXCEPT ![seated[1]] = @ + 1]
    IN  [w1 EXCEPT ![seated[2]] = @ - 1]

\* mutant: a competitor weighed by the previous call keeps that weight
old_player_weights(ps) ==
    [p \in Range(ps) |-> IF p \in DOMAIN player_weights THEN player_weights[p] ELSE 0]

\* player_weights = {participant: 0 for participant in participants}
new_player_weights(ps) == [p \in Range(ps) |-> 0]

----------------------------------------------------------------------------
(* The state machine *)

Init ==
    /\ pc = "idle"
    /\ runs = 0
    /\ participant_count = 0
    /\ tables = <<>>
    /\ ti = 0
    /\ participants = <<>>
    /\ all_combinations = <<>>
    /\ match_count = <<>>
    /\ ordered_matches = <<>>
    /\ remaining_combinations = <<>>
    /\ player_weights = <<>>
    /\ balanced_matches = <<>>
    /\ mi = 0
    /\ seen = None

\* generate_tournament(n), up to the for loop over the tables
generate_tournament(n) ==
    /\ pc = "idle"
    /\ runs < MaxRuns
    /\ participant_count' = n
    /\ tables' = split_participants(generate_participants(n))
    /\ ti' = 1
    /\ pc' = "tables"
    /\ UNCHANGED <<runs, participants, all_combinations, match_count, ordered_matches,
                   remaining_combinations, player_weights, balanced_matches, mi, seen>>

\* generate_matches(table_participants), up to the while loop
generate_matches ==
    /\ pc = "tables"
    /\ ti <= Len(tables)
    /\ participants' = tables[ti]
    /\ all_combinations' = combinations(tables[ti])
    /\ match_count' = new_match_count(tables[ti])
    /\ ordered_matches' = <<>>
    /\ remaining_combinations' = combinations(tables[ti])
    /\ pc' = "order"
    /\ UNCHANGED <<runs, participant_count, tables, ti, player_weights,
                   balanced_matches, mi, seen>>

\* one iteration of the while loop
order_step ==
    /\ pc = "order"
    /\ remaining_combinations # <<>>
    /\ LET match == selected(remaining_combinations, match_count)
       IN  /\ ordered_matches' = Append(ordered_matches, match)
           /\ match_count' = count_up(match_count, match)
           /\ remaining_combinations' = remove(remaining_combinations, match)
    /\ UNCHANGED <<pc, runs, participant_count, tables, ti, participants,
                   all_combinations, player_weights, balanced_matches, mi, seen>>

\* the while loop ends; apply_player_balance(ordered_matches, participants), up to its for loop
apply_player_balance ==
    /\ pc = "order"
    /\ remaining_combinations = <<>>
    /\ player_weights' = new_player_weights(participants)
    /\ balanced_matches' = <<>>
    /\ mi' = 1
    /\ pc' = "balance"
    /\ UNCHANGED <<runs, participant_count, tables, ti, participants, all_combinations,
                   match_count, ordered_matches, remaining_combinations, seen>>

\* one iteration of the for loop
balance_step ==
    /\ pc = "balance"
    /\ mi <= Len(ordered_matches)
    /\ LET seated == seat(player_weights, ordered_matches[mi])
       IN  /\ player_weights' = reweigh(player_weights, seated)
           /\ balanced_matches' = Append(balanced_matches, seated)
    /\ mi' = mi + 1
    /\ UNCHANGED <<pc, runs, participant_count, tables, ti, participants, all_combinations,
                   match_count, ordered_matches, remaining_combinations, seen>>

\* the for loop is over and generate_matches is about to return balanced_matches
Returning == pc = "balance" /\ mi > Len(ordered_matches)

\* both functions return; generate_tournament goes on to the next table
return_matches ==
    /\ Returning
    /\ ti' = ti + 1
    /\ pc' = "tables"
    /\ seen' \in {seen, <<participants, balanced_matches>>}
    /\ UNCHANGED <<runs, participant_count, tables, participants, all_combinations,
                   match_count, ordered_matches, remaining_combinations, player_weights,
                   balanced_matches, mi>>

\* every table is done: the workbook is saved and generate_tournament returns
save_workbook ==
    /\ pc = "tables"
    /\ ti > Len(tables)
    /\ pc' = "idle"
    /\ runs' = runs + 1
    /\ participant_count' = 0
    /\ tables' = <<>>
    /\ ti' = 0
    /\ UNCHANGED <<participants, all_combinations, match_count, ordered_matches,
                   remaining_combinations, player_weights, balanced_matches, mi, seen>>

Next ==
    \/ \E n \in 1..MaxCount : generate_tournament(n)
    \/ generate_matches
    \/ order_step
    \/ apply_player_balance
    \/ balance_step
    \/ return_matches
    \/ save_workbook

Spec == Init /\ [][Next]_vars

----------------------------------------------------------------------------
(* Vocabulary of the properties *)

Competitors == Range(participants)

\* the 2-combinations of the table in hand
TwoSubsets == {s \in SUBSET Competitors : Cardinality(s) = 2}

\* the unordered pairs under the seated matches
PairsPlayed == {{balanced_matches[k][1], balanced_matches[k][2]} : k \in DOMAIN balanced_matches}

MaxLoad == CHOOSE m \in Range(match_count) : \A x \in Range(match_count) : x <= m

MinLoad == CHOOSE m \in Range(match_count) : \A x \in Range(match_count) : m <= x

\* largest MatchLoad minus smallest MatchLoad
Gap == MaxLoad - MinLoad

\* an iteration of the while loop has just run, or the loop is about to start
Ordering == pc = "order" /\ Len(participants) >= 2

RECURSIVE Concat(_)
Concat(ss) == IF ss = <<>> THEN <<>> ELSE Head(ss) \o Concat(Tail(ss))

RECURSIVE SumOver(_, _)
SumOver(f, S) ==
    IF S = {} THEN 0
    ELSE LET x == CHOOSE y \in S : TRUE IN f[x] + SumOver(f, S \ {x})

\* split_participants has returned and its tables are in use
Split == pc # "idle"

\* number of matches of the seated schedule in which p has the first seat
FirstSeats(p) == Cardinality({k \in DOMAIN balanced_matches : balanced_matches[k][1] = p})

TableABCD == <<OrdA, OrdA + 1, OrdA + 2, OrdA + 3>>

\* position of a competitor in the input list
Place(p) == CHOOSE i \in DOMAIN participants : participants[i] = p

\* (1) summed load, (2) load of the lower-loaded member, (3) combination order
Before(c, d, mc) ==
    LET sc == mc[c[1]] + mc[c[2]]
        sd == mc[d[1]] + mc[d[2]]
        lc == IF mc[c[1]] <= mc[c[2]] THEN mc[c[1]] ELSE mc[c[2]]
        ld == IF mc[d[1]] <= mc[d[2]] THEN mc[d[1]] ELSE mc[d[2]]
    IN  \/ sc < sd
        \/ sc = sd /\ lc < ld
        \/ sc = sd /\ lc = ld /\ Place(c[1]) < Place(d[1])
        \/ sc = sd /\ lc = ld /\ Place(c[1]) = Place(d[1]) /\ Place(c[2]) < Place(d[2])

\* the pair committed last and the loads it was chosen under
LastPick == ordered_matches[Len(ordered_matches)]

LoadsBeforeLastPick ==
    [p \in DOMAIN match_count |-> match_count[p] - (IF p \in Range(LastPick) THEN 1 ELSE 0)]

----------------------------------------------------------------------------
(* Properties *)

\* C1: when generate_matches returns for a table of n distinct competitors, the
\* schedule has n*(n-1)/2 matches and the unordered pairs under them are exactly
\* the 2-combinations of the table, each once (no match at all for n = 1).
C1_EveryPairOnce ==
    Returning =>
        LET n == Len(participants)
        IN  /\ Len(balanced_matches) = (n * (n - 1)) \div 2
            /\ PairsPlayed = TwoSubsets
            /\ Cardinality(PairsPlayed) = Len(balanced_matches)
            /\ (n = 1 => balanced_matches = <<>>)

C1_Witness == Returning /\ Len(participants) = 6 /\ Len(balanced_matches) = 15

\* C2 as claimed: at every prefix of the ordering of a table of n >= 2
\* competitors the largest MatchLoad exceeds the smallest by 0 or 1.
C2_GapAtMostOne == Ordering => Gap <= 1

\* C2 amended: at every prefix of the ordering the largest MatchLoad exceeds the
\* smallest by at most 2, and by at most 1 in a table of 2 to 5 competitors.
C2_GapAtMostTwo ==
    Ordering => /\ Gap <= 2
                /\ (Len(participants) <= 5 => Gap <= 1)

C2_Witness == Ordering /\ Len(participants) = 6 /\ Gap = 2

\* C3: when split_participants returns k > 1 tables for n competitors, the first
\* n mod k tables have floor(n/k)+1 members and the others floor(n/k); n = 9
\* gives sizes 5 and 4.
C3_ExtraGoesFirst ==
    (Split /\ Len(tables) > 1) =>
        LET k == Len(tables)
            base == participant_count \div k
            r == participant_count % k
        IN  \A i \in 1..k : Len(tables[i]) = base + (IF i <= r THEN 1 ELSE 0)

\* C4: the tables split_participants returns are non-empty, their concatenation
\* in order is the input list, and their sizes differ by at most 1.
C4_TablesPartitionInput ==
    Split =>
        /\ \A i \in DOMAIN tables : tables[i] # <<>>
        /\ Concat(tables) = generate_participants(participant_count)
        /\ \A i, j \in DOMAIN tables : Len(tables[i]) - Len(tables[j]) <= 1

C4_Witness == Split /\ ti = 1 /\ participant_count = 11 /\ Len(tables) = 2

\* C5: split_participants returns 1 table for n in 1..6, 2 for 7..12, 3 for
\* 13..18 and 4 for 19..24.
C5_TableCountByTier ==
    Split =>
        /\ (participant_count \in 1..6 => Len(tables) = 1)
        /\ (participant_count \in 7..12 => Len(tables) = 2)
        /\ (participant_count \in 13..18 => Len(tables) = 3)
        /\ (participant_count \in 19..24 => Len(tables) = 4)

C5_Witness ==
    Split /\ ti = 1 /\ participant_count \in {6, 12, 18, 24}
          /\ Len(tables) = participant_count \div 6

\* C6: for n in {4, 9, 15, 20, 24}, when apply_player_balance has seated every
\* pair of a table, each competitor's SeatWeight lies in -2..2.
C6_FinalWeightsSmall ==
    (Returning /\ participant_count \in {4, 9, 15, 20, 24}) =>
        \A p \in Competitors : player_weights[p] \in -2..2

C6_Witness ==
    /\ Returning
    /\ participant_count = 24
    /\ ti = 4
    /\ \E p \in Competitors : player_weights[p] # 0

\* C7: in the schedule of the table A, B, C, D no competitor has the first seat
\* in more than 2 of its 3 matches.
C7_ABCDFirstSeatAtMostTwice ==
    (Returning /\ participants = TableABCD) =>
        \A p \in Competitors : FirstSeats(p) <= 2

C7_Witness ==
    /\ Returning
    /\ participants = TableABCD
    /\ \E p \in Competitors : FirstSeats(p) = 2

\* C8: a generate_matches call returns the schedule an earlier call returned for
\* the same competitor list, whatever was computed in between, and every call
\* starts with all MatchLoads and all SeatWeights at 0.
C8_SameInputSameSchedule ==
    /\ (Returning /\ seen # None /\ seen[1] = participants) => balanced_matches = seen[2]
    /\ (pc = "order" /\ ordered_matches = <<>>) => \A p \in Competitors : match_count[p] = 0
    /\ (pc = "balance" /\ mi = 1) => \A p \in Competitors : player_weights[p] = 0

C8_Witness ==
    /\ Returning
    /\ runs = 1
    /\ seen # None
    /\ seen[1] = participants
    /\ Len(participants) = 6

\* C9: each step of the ordering loop commits the still-unselected pair that is
\* least by (1) summed MatchLoad, (2) MatchLoad of the lower-loaded member,
\* (3) combination order of the input list; both members' MatchLoad grow by 1
\* and no other MatchLoad changes.
C9_GreedyChain ==
    [][Len(ordered_matches') = Len(ordered_matches) + 1 =>
        LET pick == ordered_matches'[Len(ordered_matches')]
        IN  /\ pick \in Range(remaining_combinations)
            /\ \A c \in Range(remaining_combinations) \ {pick} : Before(pick, c, match_count)
            /\ SubSeq(ordered_matches', 1, Len(ordered_matches)) = ordered_matches
            /\ match_count' = [p \in DOMAIN match_count |->
                                 match_count[p] + (IF p \in Range(pick) THEN 1 ELSE 0)]
      ]_vars

\* the last pick tied on (1) and (2) with a pair still unselected
C9_Witness ==
    /\ pc = "order"
    /\ Len(ordered_matches) >= 2
    /\ \E c \in Range(remaining_combinations) :
          /\ LoadsBeforeLastPick[c[1]] + LoadsBeforeLastPick[c[2]]
               = LoadsBeforeLastPick[LastPick[1]] + LoadsBeforeLastPick[LastPick[2]]
          /\ {LoadsBeforeLastPick[c[1]], LoadsBeforeLastPick[c[2]]}
               = {LoadsBeforeLastPick[LastPick[1]], LoadsBeforeLastPick[LastPick[2]]}

\* C10: apply_player_balance seats the pairs in input order, one match per pair
\* at the same position with the same two competitors; first seat to the
\* competitor of strictly lower SeatWeight, to the pair's first member on equal
\* weights; the first-seated weight grows by 1, the second-seated shrinks by 1,
\* and the weights of the table sum to 0 after every match.
C10_SeatByLowerWeight ==
    [][Len(balanced_matches') = Len(balanced_matches) + 1 =>
        LET k == Len(balanced_matches')
            p == ordered_matches[k][1]
            q == ordered_matches[k][2]
            m == balanced_matches'[k]
        IN  /\ ordered_matches' = ordered_matches
            /\ SubSeq(balanced_matches', 1, k - 1) = balanced_matches
            /\ m = IF player_weights[q] < player_weights[p] THEN <<q, p>> ELSE <<p, q>>
            /\ player_weights' = [x \in DOMAIN player_weights |->
                                    player_weights[x] + (IF x = m[1] THEN 1 ELSE 0)
                                                      - (IF x = m[2] THEN 1 ELSE 0)]
            /\ SumOver(player_weights', DOMAIN player_weights') = 0
      ]_vars

\* the last pair was seated in reverse of its input order
C10_Witness ==
    /\ pc = "balance"
    /\ balanced_matches # <<>>
    /\ LET k == Len(balanced_matches)
       IN  balanced_matches[k] = <<ordered_matches[k][2], ordered_matches[k][1]>>

====
